---- MODULE Spec2Model ----
(***************************************************************************)
(* Frame lifecycle of the VulkanAPI engine: Renderer (frame scheduler),    *)
(* SwapChain (presentation surface), Window, the GPU queue, the frame loop *)
(* of VulkanApplication::run and its multi-threaded recording fan-out.     *)
(***************************************************************************)
EXTENDS Integers, Sequences, FiniteSets, TLC

(***************************************************************************)
(* Program constants and model bounds                                      *)
(***************************************************************************)
MAX_FRAMES_IN_FLIGHT == 2

\* number of swapchain images handed out by the backend
ImageCount == 2
\* window framebuffer sizes range over 0..MaxDim in each dimension
MaxDim == 1
\* resize events delivered by one glfwPollEvents / glfwWaitEvents call
MaxEvents == 1
\* commands recorded into one primary buffer by an arbitrary caller
MaxCmds == 2
\* std::thread::hardware_concurrency() ranges over 0..MaxConcurrency in the
\* fan-out, and the scene holds at most MaxObjects game objects
MaxConcurrency == 3
MaxObjects == 4
\* the range computation alone is explored for larger inputs
MaxPartConcurrency == 4
MaxRenderables == 10

FrameSlots == 0 .. (MAX_FRAMES_IN_FLIGHT - 1)
Images == 0 .. (ImageCount - 1)
Dims == 0 .. MaxDim
Formats == {"fmtA", "fmtB"}

\* VkResult values the surface operations can return
AcquireResults == {"VK_SUCCESS", "VK_SUBOPTIMAL_KHR", "VK_ERROR_OUT_OF_DATE_KHR",
                   "VK_ERROR_DEVICE_LOST"}
PresentResults == {"VK_SUCCESS", "VK_SUBOPTIMAL_KHR", "VK_ERROR_OUT_OF_DATE_KHR",
                   "VK_ERROR_DEVICE_LOST"}

\* command buffer handles
NullCb == <<"null">>
PrimaryCb(k) == <<"primary", k>>
OtherCb == <<"other">>
CbHandles == {PrimaryCb(k) : k \in FrameSlots} \cup {OtherCb}

VARIABLES
    \* ---- producer thread (frame loop / caller of the Renderer)
    pc,                 \* position of the producer thread
    commandBuffer,      \* handle returned by the last beginFrame (run(): local)
    frameIndex,         \* run(): local frameIndex of the open frame
    lastCall,           \* the most recent Renderer call: [op, arg, recreated]
    \* ---- Renderer
    isFrameStarted,
    currentFrameIndex,
    currentImageIndex,
    cmds,               \* commands recorded into commandBuffers[currentFrameIndex]
    result,             \* beginFrame / endFrame: local VkResult result
    extent,             \* recreateSwapChain: local extent
    rcCaller,           \* recreateSwapChain: the function that called it
    retTo,              \* where that function returns to
    \* ---- SwapChain
    scCurrentFrame,     \* SwapChain::currentFrame
    scFormats,          \* <<swapChainImageFormat, swapChainDepthFormat>>
    \* ---- Window
    window,             \* [width, height, framebufferResized]
    \* ---- GPU queue
    gpuWork,            \* submitted, unretired frames, in submission order
    \* ---- recording fan-out of one frame (run(): locals)
    scene,              \* gameObjects in iteration order: [id, model]
    M,                  \* worker count
    spawnT,             \* loop variable t of the spawn loop
    threads,            \* std::vector<std::thread> threads, with each thread's state
    sec,                \* the secondary command buffers workers[t].sec[slot]
    joined,             \* number of threads joined so far
    lightPass,          \* PointLightSystem::render of the frame: [st, dist, sorted]
    \* ---- the range computation alone
    part,               \* [hc, N, M, t, computed, handed, done]
    \* ---- the window system, where it is modelled as an event queue
    winsys,             \* [queue, posted, due]
    \* ---- Renderer, continued
    commandBuffers,     \* std::vector<VkCommandBuffer> commandBuffers
    \* ---- VulkanApplication
    uboWritten          \* index of the uboBuffers element written last

prodVars == <<pc, commandBuffer, frameIndex, lastCall>>
rendVars == <<isFrameStarted, currentFrameIndex, currentImageIndex, cmds, result,
              extent, rcCaller, retTo>>
scVars == <<scCurrentFrame, scFormats>>
fanVars == <<scene, M, spawnT, threads, sec, joined, lightPass>>
loopVars == <<prodVars, rendVars, scVars, window, gpuWork>>
vars == <<loopVars, fanVars, part, winsys, commandBuffers, uboWritten>>

(***************************************************************************)
(* Window                                                                  *)
(***************************************************************************)
GetExtent(win) == <<win.width, win.height>>

WasWindowResized(win) == win.framebufferResized

ResetWindowResizedFlag(win) == [win EXCEPT !.framebufferResized = FALSE]

FramebufferResizeCallback(win, w, h) ==
    [width |-> w, height |-> h, framebufferResized |-> TRUE]

\* sequences of resize events one event-processing call can deliver
BoundedSeqs(S, n) == UNION {[1 .. k -> S] : k \in 0 .. n}
ResizeEvents == Dims \X Dims
EventBatches == BoundedSeqs(ResizeEvents, MaxEvents)

\* GLFW runs the callback once per event, in order, inside
\* glfwPollEvents / glfwWaitEvents
RECURSIVE DeliverEvents(_, _)
DeliverEvents(win, evs) ==
    IF evs = <<>> THEN win
    ELSE DeliverEvents(FramebufferResizeCallback(win, Head(evs)[1], Head(evs)[2]),
                       Tail(evs))

\* the states one event-processing call can leave the window in
ProcessEvents(win) == {DeliverEvents(win, evs) : evs \in EventBatches}

IsDegenerate(e) == e[1] = 0 \/ e[2] = 0

\* value of recreateSwapChain's local extent outside the call
NoExtent == <<0, 0>>

(***************************************************************************)
(* GPU queue and fences                                                    *)
(***************************************************************************)
\* a fence of the current swapchain is signaled when no unretired submission
\* of the current generation was submitted with it
FenceSignaled(f) ==
    \A i \in 1 .. Len(gpuWork) : gpuWork[i].old \/ gpuWork[i].fence # f

RemoveAt(s, i) == SubSeq(s, 1, i - 1) \o SubSeq(s, i + 1, Len(s))

\* variant: recreation and shutdown do not wait for the queue
DeviceWaitIdle_NoWait == TRUE

\* vkDeviceWaitIdle returns once the queue has retired everything
DeviceWaitIdle == gpuWork = <<>>

Terminated == pc \in {"thrown", "aborted", "done"}

GpuRetire ==
    /\ ~Terminated
    /\ \E i \in 1 .. Len(gpuWork) : gpuWork' = RemoveAt(gpuWork, i)
    /\ UNCHANGED <<prodVars, rendVars, scVars, window>>
    /\ UNCHANGED <<fanVars, part, winsys, commandBuffers, uboWritten>>

(***************************************************************************)
(* SwapChain                                                               *)
(***************************************************************************)
\* variant: only the image format is compared
CompareSwapFormats_ColorOnly(old, new) == old[1] = new[1]

\* formats are <<image format, depth format>>
CompareSwapFormats(old, new) == old[2] = new[2] /\ old[1] = new[1]

\* acquireNextImage waits on the fence of the frame slot about to be reused
AcquireReady == FenceSignaled(scCurrentFrame)

\* submitCommandBuffers: submit with the current slot's fence, then advance
SubmitWork(slot) ==
    Append(gpuWork, [slot |-> slot, fence |-> scCurrentFrame, old |-> FALSE])

AdvanceCurrentFrame(f) == (f + 1) % MAX_FRAMES_IN_FLIGHT

\* a new SwapChain object owns fresh sync objects; work still queued keeps
\* the fences of the generation that submitted it
RetainedWork == [i \in 1 .. Len(gpuWork) |-> [gpuWork[i] EXCEPT !.old = TRUE]]

(***************************************************************************)
(* Renderer                                                                *)
(***************************************************************************)
\* no uniform buffer has been written yet
NoUbo == <<"none">>

\* createCommandBuffers: resize(MAX_FRAMES_IN_FLIGHT) and vkAllocateCommandBuffers
CreateCommandBuffers == [k \in FrameSlots |-> PrimaryCb(k)]

\* freeCommandBuffers: vkFreeCommandBuffers and commandBuffers.clear()
FreeCommandBuffers == <<>>

\* commandBuffers[currentFrameIndex]
GetCurrentCommandBuffer == commandBuffers[currentFrameIndex]

\* SwapChain::getFrameBuffer: swapChainFramebuffers[index]
GetFrameBuffer(index) == <<"framebuffer", index>>

\* Renderer::getCurrentFrameBuffer: swapChain->getFrameBuffer(currentFrameIndex)
GetCurrentFrameBuffer == GetFrameBuffer(currentFrameIndex)

Call(op, arg) == [op |-> op, arg |-> arg, recreated |-> FALSE]

\* variants: an assertion compiled out, or checking less
BeginFrameAssert_Off == TRUE

RenderPassAsserts_NoFrameCheck(cb) == cb = PrimaryCb(currentFrameIndex)

RenderPassAsserts_NoBufferCheck(cb) == isFrameStarted

\* the contract assertions at the head of the frame operations
BeginFrameAssert == ~isFrameStarted

EndFrameAssert == isFrameStarted

RenderPassAsserts(cb) == isFrameStarted /\ cb = GetCurrentCommandBuffer

\* variant: the frame index is advanced without wrapping
NextFrameIndex_NoWrap(i) == i + 1

NextFrameIndex(i) == (i + 1) % MAX_FRAMES_IN_FLIGHT

\* assert(...) failing: the process aborts where it stands
AssertFail ==
    /\ pc' = "aborted"
    /\ UNCHANGED <<commandBuffer, frameIndex, rendVars, scVars, window, gpuWork>>

\* entry of recreateSwapChain: VkExtent2D extent = window.getExtent()
EnterRecreate(caller, ret, win) ==
    /\ extent' = GetExtent(win)
    /\ rcCaller' = caller
    /\ retTo' = ret
    /\ pc' = "rc_loop"

\* beginFrame: if (result == VK_ERROR_OUT_OF_DATE_KHR)
AcquireStale(res) == res = "VK_ERROR_OUT_OF_DATE_KHR"

\* variant: no acquire status is fatal
AcquireFailed_Never(res) == FALSE

\* beginFrame: if (result != VK_SUCCESS && result != VK_SUBOPTIMAL_KHR)
AcquireFailed(res) == res # "VK_SUCCESS" /\ res # "VK_SUBOPTIMAL_KHR"

\* variant: a suboptimal present does not recreate
PresentNeedsRecreate_StaleOnly(res, win) ==
    res = "VK_ERROR_OUT_OF_DATE_KHR" \/ WasWindowResized(win)

\* endFrame: the condition under which it recreates the swapchain
PresentNeedsRecreate(res, win) ==
    \/ res = "VK_ERROR_OUT_OF_DATE_KHR"
    \/ res = "VK_SUBOPTIMAL_KHR"
    \/ WasWindowResized(win)

\* beginFrame up to its return, or up to its call of recreateSwapChain
BeginFrame(onCb, onNull) ==
    /\ lastCall' = Call("beginFrame", NullCb)
    /\ IF ~BeginFrameAssert
       THEN AssertFail
       ELSE /\ AcquireReady
            /\ \E res \in AcquireResults, img \in Images, beginOk \in BOOLEAN :
                 /\ result' = res
                 /\ IF AcquireStale(res)
                    THEN  /\ EnterRecreate("beginFrame", onNull, window)
                          /\ UNCHANGED <<commandBuffer, isFrameStarted, currentFrameIndex,
                                         currentImageIndex, cmds>>
                    ELSE IF AcquireFailed(res)
                    THEN  /\ pc' = "thrown"
                          /\ UNCHANGED <<commandBuffer, isFrameStarted, currentFrameIndex,
                                         currentImageIndex, cmds, extent, rcCaller, retTo>>
                    ELSE  /\ isFrameStarted' = TRUE
                          /\ currentImageIndex' = img
                          /\ cmds' = <<>>
                          /\ IF beginOk
                             THEN /\ commandBuffer' = GetCurrentCommandBuffer
                                  /\ pc' = onCb
                             ELSE /\ pc' = "thrown"
                                  /\ UNCHANGED commandBuffer
                          /\ UNCHANGED <<currentFrameIndex, extent, rcCaller, retTo>>
            /\ UNCHANGED <<frameIndex, scVars, window, gpuWork>>

\* the tail of endFrame, after submit/present and any recreation
EndFrameFinish ==
    /\ isFrameStarted' = FALSE
    /\ currentFrameIndex' = NextFrameIndex(currentFrameIndex)
    /\ commandBuffer' = NullCb

EndFrame(onDone) ==
    /\ lastCall' = Call("endFrame", NullCb)
    /\ IF ~EndFrameAssert
       THEN AssertFail
       ELSE \E endOk \in BOOLEAN, res \in PresentResults :
              IF ~endOk
              THEN /\ pc' = "thrown"
                   /\ UNCHANGED <<commandBuffer, frameIndex, rendVars, scVars, window,
                                  gpuWork>>
              ELSE /\ gpuWork' = SubmitWork(currentFrameIndex)
                   /\ scCurrentFrame' = AdvanceCurrentFrame(scCurrentFrame)
                   /\ result' = res
                   /\ UNCHANGED <<frameIndex, scFormats, currentImageIndex, cmds>>
                   /\ IF PresentNeedsRecreate(res, window)
                      THEN /\ window' = ResetWindowResizedFlag(window)
                           /\ EnterRecreate("endFrame", onDone, window)
                           /\ UNCHANGED <<commandBuffer, isFrameStarted,
                                          currentFrameIndex>>
                      ELSE IF res # "VK_SUCCESS"
                      THEN /\ pc' = "thrown"
                           /\ UNCHANGED <<commandBuffer, isFrameStarted, currentFrameIndex,
                                          extent, rcCaller, retTo, window>>
                      ELSE /\ EndFrameFinish
                           /\ pc' = onDone
                           /\ UNCHANGED <<extent, rcCaller, retTo, window>>

\* recreateSwapChain: one turn of the wait loop for a degenerate extent
RecreateWait ==
    /\ pc = "rc_loop"
    /\ IsDegenerate(extent)
    /\ extent' = GetExtent(window)
    /\ window' \in ProcessEvents(window)
    /\ UNCHANGED <<prodVars, isFrameStarted, currentFrameIndex, currentImageIndex,
                   cmds, result, rcCaller, retTo, scVars, gpuWork>>
    /\ UNCHANGED <<fanVars, part, winsys, commandBuffers, uboWritten>>

\* variant: the recreation frees the command buffers and allocates new ones
RecreateBuild_Realloc ==
    /\ pc = "rc_loop"
    /\ ~IsDegenerate(extent)
    /\ DeviceWaitIdle
    /\ \E fm \in Formats \X Formats :
         /\ scFormats' = fm
         /\ scCurrentFrame' = 0
         /\ gpuWork' = RetainedWork
         /\ pc' = IF ~CompareSwapFormats(scFormats, fm) THEN "thrown"
                  ELSE IF rcCaller = "beginFrame" THEN "bf_ret" ELSE "ef_tail"
    /\ lastCall' = [lastCall EXCEPT !.recreated = TRUE]
    /\ extent' = NoExtent
    /\ rcCaller' = "none"
    /\ UNCHANGED <<commandBuffer, frameIndex, isFrameStarted, currentFrameIndex,
                   currentImageIndex, cmds, result, retTo, window>>
    /\ UNCHANGED <<fanVars, part, winsys, uboWritten>>
    /\ commandBuffers' = [k \in FrameSlots |-> <<"primary", k, "reallocated">>]

\* recreateSwapChain: wait for the device, build the new SwapChain, compare
RecreateBuild ==
    /\ pc = "rc_loop"
    /\ ~IsDegenerate(extent)
    /\ DeviceWaitIdle
    /\ \E fm \in Formats \X Formats :
         /\ scFormats' = fm
         /\ scCurrentFrame' = 0
         /\ gpuWork' = RetainedWork
         /\ pc' = IF ~CompareSwapFormats(scFormats, fm) THEN "thrown"
                  ELSE IF rcCaller = "beginFrame" THEN "bf_ret" ELSE "ef_tail"
    /\ lastCall' = [lastCall EXCEPT !.recreated = TRUE]
    /\ extent' = NoExtent
    /\ rcCaller' = "none"
    /\ UNCHANGED <<commandBuffer, frameIndex, isFrameStarted, currentFrameIndex,
                   currentImageIndex, cmds, result, retTo, window>>
    /\ UNCHANGED <<fanVars, part, winsys, commandBuffers, uboWritten>>

\* variant: the skipped frame consumes a frame index
BeginFrameReturnNull_ConsumesIndex ==
    /\ pc = "bf_ret"
    /\ commandBuffer' = NullCb
    /\ currentFrameIndex' = (currentFrameIndex + 1) % MAX_FRAMES_IN_FLIGHT
    /\ pc' = retTo
    /\ retTo' = "none"
    /\ UNCHANGED <<frameIndex, lastCall, isFrameStarted, currentImageIndex, cmds,
                   result, extent, rcCaller, scVars, window, gpuWork>>
    /\ UNCHANGED <<fanVars, part, winsys, commandBuffers, uboWritten>>

\* beginFrame: return nullptr after the recreation
BeginFrameReturnNull ==
    /\ pc = "bf_ret"
    /\ commandBuffer' = NullCb
    /\ pc' = retTo
    /\ retTo' = "none"
    /\ UNCHANGED <<frameIndex, lastCall, isFrameStarted, currentFrameIndex,
                   currentImageIndex, cmds, result, extent, rcCaller, scVars, window,
                   gpuWork>>
    /\ UNCHANGED <<fanVars, part, winsys, commandBuffers, uboWritten>>

\* endFrame: the statements after the recreation
EndFrameTail ==
    /\ pc = "ef_tail"
    /\ EndFrameFinish
    /\ pc' = retTo
    /\ retTo' = "none"
    /\ UNCHANGED <<frameIndex, lastCall, currentImageIndex, cmds, result, extent,
                   rcCaller, scVars, window, gpuWork>>
    /\ UNCHANGED <<fanVars, part, winsys, commandBuffers, uboWritten>>

BeginSwapChainRenderPass(cb, next) ==
    /\ lastCall' = Call("beginSwapChainRenderPass", cb)
    /\ IF ~RenderPassAsserts(cb)
       THEN AssertFail
       ELSE /\ cmds' = Append(cmds, <<"vkCmdBeginRenderPass",
                                  GetFrameBuffer(currentImageIndex),
                                  "VK_SUBPASS_CONTENTS_INLINE">>)
            /\ pc' = next
            /\ UNCHANGED <<commandBuffer, frameIndex, isFrameStarted, currentFrameIndex,
                           currentImageIndex, result, extent, rcCaller, retTo, scVars,
                           window, gpuWork>>

EndSwapChainRenderPass(cb, next) ==
    /\ lastCall' = Call("endSwapChainRenderPass", cb)
    /\ IF ~RenderPassAsserts(cb)
       THEN AssertFail
       ELSE /\ cmds' = Append(cmds, <<"vkCmdEndRenderPass">>)
            /\ pc' = next
            /\ UNCHANGED <<commandBuffer, frameIndex, isFrameStarted, currentFrameIndex,
                           currentImageIndex, result, extent, rcCaller, retTo, scVars,
                           window, gpuWork>>

(***************************************************************************)
(* VulkanApplication::run, the frame loop                                  *)
(***************************************************************************)
\* while (!editorUI.getWindow().shouldClose())
LoopTest ==
    /\ pc = "loop"
    /\ \E close \in BOOLEAN : pc' = IF close THEN "shutdown" ELSE "poll"
    /\ UNCHANGED <<commandBuffer, frameIndex, lastCall, rendVars, scVars, window,
                   gpuWork>>
    /\ UNCHANGED <<fanVars, part, winsys, commandBuffers, uboWritten>>

\* glfwPollEvents() and the camera update
PollEvents ==
    /\ pc = "poll"
    /\ window' \in ProcessEvents(window)
    /\ pc' = "beginFrame"
    /\ UNCHANGED <<commandBuffer, frameIndex, lastCall, rendVars, scVars, gpuWork>>
    /\ UNCHANGED <<fanVars, part, winsys, commandBuffers, uboWritten>>

RunBeginFrame ==
    /\ pc = "beginFrame"
    /\ BeginFrame("update", "loop")
    /\ UNCHANGED <<fanVars, part, winsys, commandBuffers, uboWritten>>

\* variant: the uniform buffer of the other slot is written
RunUpdate_WritesOther ==
    /\ pc = "update"
    /\ lastCall' = Call("getFrameIndex", NullCb)
    /\ IF ~isFrameStarted
       THEN AssertFail /\ UNCHANGED uboWritten
       ELSE /\ frameIndex' = currentFrameIndex
            /\ uboWritten' = (frameIndex' + 1) % MAX_FRAMES_IN_FLIGHT
            /\ pc' = "beginRP"
            /\ UNCHANGED <<commandBuffer, rendVars, scVars, window, gpuWork>>
    /\ UNCHANGED <<fanVars, part, winsys, commandBuffers>>

\* int frameIndex = renderer->getFrameIndex(); light update;
\* uboBuffers[frameIndex]->writeToBuffer(&ubo)
RunUpdate ==
    /\ pc = "update"
    /\ lastCall' = Call("getFrameIndex", NullCb)
    /\ IF ~isFrameStarted
       THEN AssertFail /\ UNCHANGED uboWritten
       ELSE /\ frameIndex' = currentFrameIndex
            /\ uboWritten' = frameIndex'
            /\ pc' = "beginRP"
            /\ UNCHANGED <<commandBuffer, rendVars, scVars, window, gpuWork>>
    /\ UNCHANGED <<fanVars, part, winsys, commandBuffers>>

RunBeginRenderPass ==
    /\ pc = "beginRP"
    /\ BeginSwapChainRenderPass(commandBuffer, "record")
    /\ UNCHANGED <<fanVars, part, winsys, commandBuffers, uboWritten>>

\* variant: window events are processed while the frame body runs
RunRecord_Polls ==
    /\ pc = "record"
    /\ cmds' = Append(cmds, <<"vkCmdExecuteCommands", frameIndex,
                             GetCurrentFrameBuffer>>)
    /\ pc' = "endRP"
    /\ UNCHANGED <<commandBuffer, frameIndex, lastCall, isFrameStarted,
                   currentFrameIndex, currentImageIndex, result, extent, rcCaller,
                   retTo, scVars, gpuWork>>
    /\ window' \in ProcessEvents(window)
    /\ UNCHANGED <<fanVars, part, winsys, commandBuffers, uboWritten>>

\* the recording fan-out of the frame, seen from the primary buffer: the
\* secondary buffers of slot frameIndex, begun with inherit.framebuffer
RunRecord ==
    /\ pc = "record"
    /\ cmds' = Append(cmds, <<"vkCmdExecuteCommands", frameIndex,
                             GetCurrentFrameBuffer>>)
    /\ pc' = "endRP"
    /\ UNCHANGED <<commandBuffer, frameIndex, lastCall, isFrameStarted,
                   currentFrameIndex, currentImageIndex, result, extent, rcCaller,
                   retTo, scVars, window, gpuWork>>
    /\ UNCHANGED <<fanVars, part, winsys, commandBuffers, uboWritten>>

RunEndRenderPass ==
    /\ pc = "endRP"
    /\ EndSwapChainRenderPass(commandBuffer, "endFrame")
    /\ UNCHANGED <<fanVars, part, winsys, commandBuffers, uboWritten>>

RunEndFrame ==
    /\ pc = "endFrame"
    /\ EndFrame("loop")
    /\ UNCHANGED <<fanVars, part, winsys, commandBuffers, uboWritten>>

\* vkDeviceWaitIdle after the loop
Shutdown ==
    /\ pc = "shutdown"
    /\ DeviceWaitIdle
    /\ pc' = "done"
    /\ UNCHANGED <<commandBuffer, frameIndex, lastCall, rendVars, scVars, window,
                   gpuWork>>
    /\ UNCHANGED <<fanVars, part, winsys, commandBuffers, uboWritten>>

\* pointLightSystem.render has not been called in the frame
LightPassIdle == lightPass = [st |-> "pending", dist |-> <<>>, sorted |-> <<>>]

\* Renderer::~Renderer, when the application object is destroyed after run()
\* has returned
RendererDestroy ==
    /\ pc = "done"
    /\ commandBuffers # FreeCommandBuffers
    /\ commandBuffers' = FreeCommandBuffers
    /\ UNCHANGED <<loopVars, fanVars, part, winsys, uboWritten>>

\* the locals of the fan-out outside the frame body
FanIdle ==
    /\ scene = <<>>
    /\ M = 2
    /\ spawnT = 0
    /\ threads = <<>>
    /\ sec = <<>>
    /\ joined = 0
    /\ LightPassIdle

PartIdle == part = <<>>

\* no event queued: the window's events are drawn by ProcessEvents instead
WinSysIdle == winsys = [queue |-> <<>>, posted |-> 0, due |-> FALSE]

\* state after VulkanApplication's constructor: window, device, Renderer
\* (first SwapChain, command buffers) built; no frame begun
InitRenderer ==
    /\ commandBuffer = NullCb
    /\ frameIndex = 0
    /\ lastCall = Call("Renderer", NullCb)
    /\ result = "VK_SUCCESS"
    /\ isFrameStarted = FALSE
    /\ currentFrameIndex = 0
    /\ currentImageIndex \in Images
    /\ cmds = <<>>
    /\ \E w \in Dims \ {0}, h \in Dims \ {0} :
         window = [width |-> w, height |-> h, framebufferResized |-> FALSE]
    /\ extent = NoExtent
    /\ rcCaller = "none"
    /\ retTo = "none"
    /\ scCurrentFrame = 0
    /\ scFormats \in Formats \X Formats
    /\ gpuWork = <<>>
    /\ commandBuffers = CreateCommandBuffers
    /\ uboWritten = NoUbo

Init ==
    /\ pc = "loop"
    /\ InitRenderer
    /\ FanIdle
    /\ PartIdle
    /\ WinSysIdle

Next ==
    \/ LoopTest
    \/ PollEvents
    \/ RunBeginFrame
    \/ RunUpdate
    \/ RunBeginRenderPass
    \/ RunRecord
    \/ RunEndRenderPass
    \/ RunEndFrame
    \/ RecreateWait
    \/ RecreateBuild
    \/ BeginFrameReturnNull
    \/ EndFrameTail
    \/ GpuRetire
    \/ Shutdown
    \/ RendererDestroy

Spec == Init /\ [][Next]_vars

(***************************************************************************)
(* The Renderer under an arbitrary caller: any frame operation may be      *)
(* called, with any command buffer handle, whenever the previous call has  *)
(* returned                                                                *)
(***************************************************************************)
ApiBeginFrame ==
    /\ pc = "api"
    /\ BeginFrame("api", "api")
    /\ UNCHANGED <<fanVars, part, winsys, commandBuffers, uboWritten>>

ApiEndFrame ==
    /\ pc = "api"
    /\ EndFrame("api")
    /\ UNCHANGED <<fanVars, part, winsys, commandBuffers, uboWritten>>

ApiBeginRenderPass ==
    /\ pc = "api"
    /\ \E cb \in CbHandles :
         /\ Len(cmds) < MaxCmds \/ ~RenderPassAsserts(cb)
         /\ BeginSwapChainRenderPass(cb, "api")
    /\ UNCHANGED <<fanVars, part, winsys, commandBuffers, uboWritten>>

ApiEndRenderPass ==
    /\ pc = "api"
    /\ \E cb \in CbHandles :
         /\ Len(cmds) < MaxCmds \/ ~RenderPassAsserts(cb)
         /\ EndSwapChainRenderPass(cb, "api")
    /\ UNCHANGED <<fanVars, part, winsys, commandBuffers, uboWritten>>

\* the caller runs glfwPollEvents between two calls
ApiPollEvents ==
    /\ pc = "api"
    /\ window' \in ProcessEvents(window)
    /\ UNCHANGED <<prodVars, rendVars, scVars, gpuWork>>
    /\ UNCHANGED <<fanVars, part, winsys, commandBuffers, uboWritten>>

InitApi ==
    /\ pc = "api"
    /\ InitRenderer
    /\ FanIdle
    /\ PartIdle
    /\ WinSysIdle

NextApi ==
    \/ ApiBeginFrame
    \/ ApiEndFrame
    \/ ApiBeginRenderPass
    \/ ApiEndRenderPass
    \/ ApiPollEvents
    \/ RecreateWait
    \/ RecreateBuild
    \/ BeginFrameReturnNull
    \/ EndFrameTail
    \/ GpuRetire

SpecApi == InitApi /\ [][NextApi]_vars

(***************************************************************************)
(* The recording fan-out of one frame (run(), inside the render pass)      *)
(***************************************************************************)
Min(a, b) == IF a < b THEN a ELSE b

Max(a, b) == IF a > b THEN a ELSE b

\* const int M = std::max(2u, std::thread::hardware_concurrency())
WorkerCount(hc) == Max(2, hc)

\* variant: the chunk size is rounded down
Chunk_Floor(n, m) == n \div m

\* const size_t chunk = (N + M - 1) / M
Chunk(n, m) == (n + m - 1) \div m

\* const size_t begin = std::min(N, size_t(t) * chunk)
RangeBegin(n, m, k) == Min(n, k * Chunk(n, m))

\* variant: the end of the range is not clamped to N
RangeEnd_NoClamp(n, m, k) == RangeBegin(n, m, k) + Chunk(n, m)

\* const size_t end = std::min(N, begin + chunk)
RangeEnd(n, m, k) == Min(n, RangeBegin(n, m, k) + Chunk(n, m))

\* variant: every worker is given the first worker's buffer
SecCb_Shared(k, slot) == <<"secondary", 0, slot>>

\* workers[k].sec[slot]
SecCb(k, slot) == <<"secondary", k, slot>>

SecHandles(m) == {SecCb(k, slot) : k \in 0 .. (m - 1), slot \in FrameSlots}

Scenes ==
    UNION {[1 .. n -> BOOLEAN] : n \in 0 .. MaxObjects}

\* the commands recorded for one game object with a model
ObjectCommands(object) ==
    <<<<"vkCmdPushConstants", object.id, object.transform>>,
      <<"bind", object.id>>, <<"draw", object.id>>>>

\* the pipeline and descriptor set binds at the head of render / recordRange
BindCommands(slot) ==
    <<<<"vkCmdBindPipeline">>, <<"vkCmdBindDescriptorSets", slot>>>>

\* BasicRenderer::render: every object of the map, in iteration order
RECURSIVE RenderObjects(_, _)
RenderObjects(objs, i) ==
    IF i > Len(objs) THEN <<>>
    ELSE (IF objs[i].model THEN ObjectCommands(objs[i]) ELSE <<>>)
         \o RenderObjects(objs, i + 1)

Render(objs, slot) == BindCommands(slot) \o RenderObjects(objs, 1)

\* one iteration of the spawn loop, or its exit
FanSpawn ==
    /\ pc = "fan_spawn"
    /\ LET N == Len(scene)
           begin == RangeBegin(N, M, spawnT)
           end == RangeEnd(N, M, spawnT)
           cbSec == SecCb(spawnT, frameIndex)
       IN IF spawnT < M /\ begin < end
          THEN /\ sec' = [sec EXCEPT ![cbSec] = [state |-> "recording", cmds |-> <<>>,
                                              inherit |-> GetCurrentFrameBuffer]]
               /\ threads' = Append(threads, [cbSec |-> cbSec, begin |-> begin,
                                              end |-> end, i |-> begin,
                                              st |-> "spawned"])
               /\ spawnT' = spawnT + 1
               /\ pc' = pc
          ELSE /\ pc' = "fan_join"
               /\ UNCHANGED <<sec, threads, spawnT>>
    /\ UNCHANGED <<commandBuffer, frameIndex, lastCall, rendVars, scVars, window,
                   gpuWork, scene, M, joined, part,
                   winsys, lightPass, commandBuffers, uboWritten>>

\* worker thread: head of recordRange (binds, view, clamping of the range)
WorkerBegin(k) ==
    /\ threads[k].st = "spawned"
    /\ LET th == threads[k]
           size == Len(scene)
           b == IF th.begin > size THEN size ELSE th.begin
           e == IF th.end > size THEN size ELSE th.end
       IN /\ sec' = [sec EXCEPT ![th.cbSec].cmds = @ \o BindCommands(frameIndex)]
          /\ threads' = [threads EXCEPT ![k] = [th EXCEPT !.begin = b, !.end = e,
                                                          !.i = b, !.st = "recording"]]
    /\ UNCHANGED <<loopVars, scene, M, spawnT, joined, part,
                   winsys, lightPass, commandBuffers, uboWritten>>

\* variant: the loop does not skip objects without a model
WorkerRecord_DrawsAll(k) ==
    /\ threads[k].st = "recording"
    /\ threads[k].i < threads[k].end
    /\ LET th == threads[k]
           object == scene[th.i + 1]
       IN /\ sec' = [sec EXCEPT ![th.cbSec].cmds = @ \o ObjectCommands(object)]
          /\ threads' = [threads EXCEPT ![k].i = th.i + 1]
    /\ UNCHANGED <<loopVars, scene, M, spawnT, joined, part,
                   winsys, lightPass, commandBuffers, uboWritten>>

\* worker thread: one turn of the loop of recordRange
WorkerRecord(k) ==
    /\ threads[k].st = "recording"
    /\ threads[k].i < threads[k].end
    /\ LET th == threads[k]
           object == scene[th.i + 1]
       IN /\ sec' = IF object.model
                    THEN [sec EXCEPT ![th.cbSec].cmds = @ \o ObjectCommands(object)]
                    ELSE sec
          /\ threads' = [threads EXCEPT ![k].i = th.i + 1]
    /\ UNCHANGED <<loopVars, scene, M, spawnT, joined, part,
                   winsys, lightPass, commandBuffers, uboWritten>>

\* worker thread: vkEndCommandBuffer(cbSec), and the thread ends
WorkerEnd(k) ==
    /\ threads[k].st = "recording"
    /\ threads[k].i >= threads[k].end
    /\ sec' = [sec EXCEPT ![threads[k].cbSec].state = "executable"]
    /\ threads' = [threads EXCEPT ![k].st = "finished"]
    /\ UNCHANGED <<loopVars, scene, M, spawnT, joined, part,
                   winsys, lightPass, commandBuffers, uboWritten>>

\* variant: join returns without waiting for the thread
FanJoin_NoWait ==
    /\ pc = "fan_join"
    /\ IF joined < Len(threads)
       THEN /\ joined' = joined + 1
            /\ pc' = pc
       ELSE /\ pc' = "fan_exec"
            /\ UNCHANGED joined
    /\ UNCHANGED <<commandBuffer, frameIndex, lastCall, rendVars, scVars, window,
                   gpuWork, scene, M, spawnT, threads, sec, part,
                   winsys, lightPass, commandBuffers, uboWritten>>

\* for (std::thread& th : threads) th.join()
FanJoin ==
    /\ pc = "fan_join"
    /\ IF joined < Len(threads)
       THEN /\ threads[joined + 1].st = "finished"
            /\ joined' = joined + 1
            /\ pc' = pc
       ELSE /\ pc' = "fan_exec"
            /\ UNCHANGED joined
    /\ UNCHANGED <<commandBuffer, frameIndex, lastCall, rendVars, scVars, window,
                   gpuWork, scene, M, spawnT, threads, sec, part,
                   winsys, lightPass, commandBuffers, uboWritten>>

\* execList and vkCmdExecuteCommands
FanExecute ==
    /\ pc = "fan_exec"
    /\ LET execList == [k \in 1 .. Len(threads) |-> SecCb(k - 1, frameIndex)]
       IN cmds' = IF execList # <<>>
                  THEN Append(cmds, <<"vkCmdExecuteCommands", execList>>)
                  ELSE cmds
    /\ pc' = "fan_done"
    /\ UNCHANGED <<commandBuffer, frameIndex, lastCall, isFrameStarted,
                   currentFrameIndex, currentImageIndex, result, extent, rcCaller,
                   retTo, scVars, window, gpuWork, fanVars, part, winsys, commandBuffers, uboWritten>>

\* in this application the point lights are the objects without a model
IsLight(object) == ~object.model

\* pointLightSystem.update(frameInfo, ubo): rotates every light; then
\* uboBuffers[frameIndex]->writeToBuffer(&ubo)
FanUpdate ==
    /\ pc = "fan_update"
    /\ scene' = [i \in DOMAIN scene |->
                   IF IsLight(scene[i]) THEN [scene[i] EXCEPT !.transform = "rotated"]
                   ELSE scene[i]]
    /\ pc' = "fan_beginRP"
    /\ UNCHANGED <<commandBuffer, frameIndex, lastCall, rendVars, scVars, window,
                   gpuWork, M, spawnT, threads, sec, joined, part, winsys, lightPass, commandBuffers>>
    /\ uboWritten' = frameIndex

FanBeginRenderPass ==
    /\ pc = "fan_beginRP"
    /\ BeginSwapChainRenderPass(commandBuffer, "fan_ui")
    /\ UNCHANGED <<fanVars, part, winsys, commandBuffers, uboWritten>>

\* variant: the UI edits the scene after the workers have been spawned
FanUi_Late ==
    /\ \/ pc = "fan_ui" /\ pc' = "fan_spawn" /\ scene' = scene
       \/ /\ pc = "fan_join"
          /\ pc' = pc
          /\ \E i \in 1 .. Len(scene) :
               /\ scene[i].transform # "edited"
               /\ scene' = [scene EXCEPT ![i].transform = "edited"]
    /\ UNCHANGED <<commandBuffer, frameIndex, lastCall, rendVars, scVars, window,
                   gpuWork, M, spawnT, threads, sec, joined, part, winsys, lightPass, commandBuffers, uboWritten>>

\* editorUI.drawGameObjects(gameObjects): the sliders may change the
\* transform of an object
FanUi ==
    /\ pc = "fan_ui"
    /\ \E i \in 0 .. Len(scene) :
         scene' = IF i = 0 THEN scene ELSE [scene EXCEPT ![i].transform = "edited"]
    /\ pc' = "fan_spawn"
    /\ UNCHANGED <<commandBuffer, frameIndex, lastCall, rendVars, scVars, window,
                   gpuWork, M, spawnT, threads, sec, joined, part, winsys, lightPass, commandBuffers, uboWritten>>

\* squared distances from the camera range over 1..MaxDist
MaxDist == 2

Dists == 1 .. MaxDist

LightIds(objs) == {i \in DOMAIN objs : IsLight(objs[i])}

\* the placements of the lights relative to the camera: the squared distance
\* of every light, dot(offset, offset)
Placements(objs) == [LightIds(objs) -> Dists]

\* std::map<float, unsigned int>::operator[] followed by assignment: the key
\* is inserted, or the value stored under an equal key is replaced
MapPut(m, k, v) == [x \in (DOMAIN m) \cup {k} |-> IF x = k THEN v ELSE m[x]]

EmptyMap == <<>>

\* PointLightSystem::render, first loop: sorted[disSquared] = obj.getId()
RECURSIVE SortLights(_, _, _, _)
SortLights(objs, dist, i, m) ==
    IF i > Len(objs) THEN m
    ELSE SortLights(objs, dist, i + 1,
                    IF IsLight(objs[i]) THEN MapPut(m, dist[i], objs[i].id) ELSE m)

\* frameInfo.gameObjects.at(id)
ObjectAt(objs, id) == objs[CHOOSE i \in DOMAIN objs : objs[i].id = id]

\* the push constants and the draw recorded for one light
LightCommands(object) ==
    <<<<"vkCmdPushConstants", object.id, object.transform>>,
      <<"vkCmdDraw", object.id>>>>

MaxKey(m) == CHOOSE k \in DOMAIN m : \A x \in DOMAIN m : x <= k

\* PointLightSystem::render, second loop: the map from rbegin() to rend()
RECURSIVE DrawSorted(_, _)
DrawSorted(m, objs) ==
    IF DOMAIN m = {} THEN <<>>
    ELSE LightCommands(ObjectAt(objs, m[MaxKey(m)]))
         \o DrawSorted([x \in (DOMAIN m) \ {MaxKey(m)} |-> m[x]], objs)

\* variant: the lights are sorted while the workers are recording
FanLightSort_Early ==
    /\ pc = "fan_join"
    /\ lightPass.st = "pending"
    /\ \E dist \in Placements(scene) :
         lightPass' = [st |-> "sorted", dist |-> dist,
                       sorted |-> SortLights(scene, dist, 1, EmptyMap)]
    /\ UNCHANGED <<loopVars, scene, M, spawnT, threads, sec, joined, part, winsys, commandBuffers, uboWritten>>

\* pointLightSystem.render(frameInfo), after the execute call: the sort
FanLightSort ==
    /\ pc = "fan_done"
    /\ lightPass.st = "pending"
    /\ \E dist \in Placements(scene) :
         lightPass' = [st |-> "sorted", dist |-> dist,
                       sorted |-> SortLights(scene, dist, 1, EmptyMap)]
    /\ UNCHANGED <<loopVars, scene, M, spawnT, threads, sec, joined, part, winsys, commandBuffers, uboWritten>>

\* pointLightSystem.render(frameInfo): the binds and the draws
FanLightDraw ==
    /\ pc = "fan_done"
    /\ lightPass.st = "sorted"
    /\ cmds' = cmds \o BindCommands(frameIndex) \o DrawSorted(lightPass.sorted, scene)
    /\ lightPass' = [lightPass EXCEPT !.st = "drawn"]
    /\ UNCHANGED <<prodVars, isFrameStarted, currentFrameIndex, currentImageIndex,
                   result, extent, rcCaller, retTo, scVars, window, gpuWork>>
    /\ UNCHANGED <<scene, M, spawnT, threads, sec, joined, part, winsys, commandBuffers, uboWritten>>

\* editorUI.endFrame(commandBuffer): ImGui records its draw data
FanUiEnd ==
    /\ pc = "fan_done"
    /\ lightPass.st = "drawn"
    /\ cmds' = Append(cmds, <<"ImGui_ImplVulkan_RenderDrawData">>)
    /\ lightPass' = [lightPass EXCEPT !.st = "ui"]
    /\ UNCHANGED <<prodVars, isFrameStarted, currentFrameIndex, currentImageIndex,
                   result, extent, rcCaller, retTo, scVars, window, gpuWork>>
    /\ UNCHANGED <<scene, M, spawnT, threads, sec, joined, part, winsys, commandBuffers, uboWritten>>

\* a frame after beginFrame and getFrameIndex, for any scene, worker count,
\* slot and acquired image
InitFan ==
    /\ pc = "fan_update"
    /\ \E slot \in FrameSlots :
         /\ frameIndex = slot
         /\ currentFrameIndex = slot
         /\ commandBuffer = PrimaryCb(slot)
    /\ lastCall = Call("getFrameIndex", NullCb)
    /\ isFrameStarted = TRUE
    /\ currentImageIndex \in Images
    /\ cmds = <<>>
    /\ result = "VK_SUCCESS"
    /\ window = [width |-> 1, height |-> 1, framebufferResized |-> FALSE]
    /\ extent = NoExtent
    /\ rcCaller = "none"
    /\ retTo = "none"
    /\ scCurrentFrame = currentFrameIndex
    /\ scFormats = <<"fmtA", "fmtA">>
    /\ gpuWork = <<>>
    /\ commandBuffers = CreateCommandBuffers
    /\ uboWritten = NoUbo
    /\ \E models \in Scenes :
         scene = [i \in DOMAIN models |->
                    [id |-> i, model |-> models[i], transform |-> "initial"]]
    /\ \E hc \in 0 .. MaxConcurrency : M = WorkerCount(hc)
    /\ spawnT = 0
    /\ threads = <<>>
    /\ sec = [h \in SecHandles(M) |-> [state |-> "initial", cmds |-> <<>>,
                                     inherit |-> <<"none">>]]
    /\ joined = 0
    /\ LightPassIdle
    /\ PartIdle
    /\ WinSysIdle

\* the worker threads run concurrently with each other and with the producer
WorkerBeginStep == \E k \in 1 .. Len(threads) : WorkerBegin(k)

WorkerRecordStep == \E k \in 1 .. Len(threads) : WorkerRecord(k)

WorkerEndStep == \E k \in 1 .. Len(threads) : WorkerEnd(k)

NextFan ==
    \/ FanUpdate
    \/ FanBeginRenderPass
    \/ FanUi
    \/ FanSpawn
    \/ WorkerBeginStep
    \/ WorkerRecordStep
    \/ WorkerEndStep
    \/ FanJoin
    \/ FanExecute
    \/ FanLightSort
    \/ FanLightDraw
    \/ FanUiEnd

SpecFan == InitFan /\ [][NextFan]_vars

(***************************************************************************)
(* The range computation of the spawn loop alone                           *)
(***************************************************************************)
\* one iteration of the spawn loop: the range of worker t, then break or hand out
PartitionStep ==
    /\ ~part.done
    /\ LET begin == RangeBegin(part.N, part.M, part.t)
           end == RangeEnd(part.N, part.M, part.t)
       IN IF part.t >= part.M
          THEN part' = [part EXCEPT !.done = TRUE]
          ELSE IF begin >= end
          THEN part' = [part EXCEPT !.computed = Append(@, <<begin, end>>),
                                    !.done = TRUE]
          ELSE part' = [part EXCEPT !.computed = Append(@, <<begin, end>>),
                                    !.handed = Append(@, <<begin, end>>),
                                    !.t = @ + 1]
    /\ UNCHANGED <<loopVars, fanVars, winsys, commandBuffers, uboWritten>>

InitPart ==
    /\ \E n \in 0 .. MaxRenderables, hc \in 0 .. MaxPartConcurrency :
         part = [hc |-> hc, N |-> n, M |-> WorkerCount(hc), t |-> 0,
                 computed |-> <<>>, handed |-> <<>>, done |-> FALSE]
    /\ pc = "part"
    /\ InitRenderer
    /\ FanIdle
    /\ WinSysIdle

NextPart == PartitionStep

SpecPart == InitPart /\ [][NextPart]_vars

(***************************************************************************)
(* Properties of the frame loop (Spec)                                     *)
(***************************************************************************)
\* the step in which a call of endFrame returns to run()
EndFrameReturns == pc \in {"endFrame", "ef_tail"} /\ pc' = "loop"

\* C1: every endFrame that returns normally, with or without a swapchain
\* recreation inside it, leaves currentFrameIndex at (previous + 1) mod
\* MAX_FRAMES_IN_FLIGHT; no other step changes it; it is always 0 or 1.
C1_FrameIndexRoundRobin ==
    /\ currentFrameIndex \in 0 .. (MAX_FRAMES_IN_FLIGHT - 1)
    /\ [][/\ currentFrameIndex' \in 0 .. (MAX_FRAMES_IN_FLIGHT - 1)
          /\ IF EndFrameReturns
             THEN currentFrameIndex' = (currentFrameIndex + 1) % MAX_FRAMES_IN_FLIGHT
             ELSE currentFrameIndex' = currentFrameIndex]_vars

\* an endFrame that recreated the swapchain has returned and wrapped the index
C1_Witness ==
    /\ pc = "loop"
    /\ lastCall.op = "endFrame"
    /\ lastCall.recreated
    /\ currentFrameIndex = 0

\* the primary buffer of the current slot is in the recording state
Recording == pc \in {"update", "beginRP", "record", "endRP", "endFrame"}

\* C2: while slot k's primary buffer is being recorded, and when the fan-out
\* records slot k's secondary buffers, no frame submitted from slot k is
\* unretired; at most MAX_FRAMES_IN_FLIGHT frames are unretired and they are
\* from different slots.
C2_SlotReusedAfterFence ==
    /\ Recording =>
         \A i \in 1 .. Len(gpuWork) : gpuWork[i].slot # currentFrameIndex
    /\ pc = "record" =>
         \A i \in 1 .. Len(gpuWork) : gpuWork[i].slot # frameIndex
    /\ Len(gpuWork) <= MAX_FRAMES_IN_FLIGHT
    /\ \A i, j \in 1 .. Len(gpuWork) : i # j => gpuWork[i].slot # gpuWork[j].slot

\* slot 0 is recorded again while the frame of slot 1 is still in flight
C2_Witness ==
    /\ pc = "record"
    /\ frameIndex = 0
    /\ Len(gpuWork) = 1
    /\ gpuWork[1].slot = 1

\* beginFrame is inside, or returning from, the recreation after a stale acquire
InStaleBeginFrame == (pc = "rc_loop" /\ rcCaller = "beginFrame") \/ pc = "bf_ret"

\* C6: a stale acquire in beginFrame calls recreateSwapChain, submits nothing,
\* returns null with isFrameStarted false and leaves currentFrameIndex as it was.
C6_StaleAcquireSkipsFrame ==
    [][/\ (pc = "beginFrame" /\ pc' # pc /\ result' = "VK_ERROR_OUT_OF_DATE_KHR") =>
            /\ pc' = "rc_loop"
            /\ rcCaller' = "beginFrame"
       /\ (InStaleBeginFrame \/ InStaleBeginFrame') =>
            /\ ~isFrameStarted'
            /\ currentFrameIndex' = currentFrameIndex
            /\ Len(gpuWork') <= Len(gpuWork)
       /\ (pc = "bf_ret" /\ pc' # pc) =>
            /\ pc' = "loop"
            /\ commandBuffer' = NullCb]_vars

\* a stale acquire on slot 1 has returned null
C6_Witness ==
    /\ pc = "loop"
    /\ lastCall.op = "beginFrame"
    /\ lastCall.recreated
    /\ result = "VK_ERROR_OUT_OF_DATE_KHR"
    /\ commandBuffer = NullCb
    /\ ~isFrameStarted
    /\ currentFrameIndex = 1

(***************************************************************************)
(* Properties of the Renderer contract (SpecApi)                           *)
(***************************************************************************)
\* C3: beginFrame aborts on its assertion when a frame is started, endFrame
\* when none is; outside a fatal error, isFrameStarted is true exactly while
\* the caller holds the command buffer of a beginFrame whose endFrame has not
\* completed.
C3_IdleRecordingAlternation ==
    /\ [](~Terminated => (isFrameStarted <=> commandBuffer # NullCb))
    /\ [][/\ (ApiBeginFrame /\ isFrameStarted) => (pc' = "aborted" /\ isFrameStarted')
          /\ (ApiEndFrame /\ ~isFrameStarted) => (pc' = "aborted" /\ ~isFrameStarted')
          /\ (ApiBeginFrame /\ pc' = "api") =>
                (isFrameStarted' /\ commandBuffer' = PrimaryCb(currentFrameIndex))
          /\ (isFrameStarted /\ ~isFrameStarted') =>
                (lastCall'.op = "endFrame" /\ pc' = "api")]_vars

\* beginFrame was called during an open frame and aborted
C3_Witness ==
    /\ pc = "aborted"
    /\ lastCall.op = "beginFrame"
    /\ isFrameStarted
    /\ commandBuffer # NullCb

\* C4: beginSwapChainRenderPass and endSwapChainRenderPass abort on the
\* assertion whenever the caller holds no open frame.
C4_RenderPassNeedsFrame ==
    [][((ApiBeginRenderPass \/ ApiEndRenderPass) /\ commandBuffer = NullCb) =>
          (pc' = "aborted" /\ cmds' = cmds)]_vars

\* a render pass call aborted after a beginFrame that returned null on a
\* stale acquire
C4_Witness ==
    /\ pc = "aborted"
    /\ lastCall.op \in {"beginSwapChainRenderPass", "endSwapChainRenderPass"}
    /\ commandBuffer = NullCb
    /\ result = "VK_ERROR_OUT_OF_DATE_KHR"
    /\ ~isFrameStarted

\* C5: during an open frame the two render pass operations record into the
\* buffer returned by beginFrame and abort for every other handle.
C5_RenderPassOnlyCurrentBuffer ==
    [][((ApiBeginRenderPass \/ ApiEndRenderPass) /\ commandBuffer # NullCb) =>
          IF lastCall'.arg = commandBuffer
          THEN pc' = "api" /\ Len(cmds') = Len(cmds) + 1
          ELSE pc' = "aborted" /\ cmds' = cmds]_vars

\* the primary buffer of the other slot was passed during an open frame
C5_Witness ==
    /\ pc = "aborted"
    /\ lastCall.op = "beginSwapChainRenderPass"
    /\ isFrameStarted
    /\ \E k \in FrameSlots : k # currentFrameIndex /\ lastCall.arg = PrimaryCb(k)

(***************************************************************************)
(* Properties of the range computation (SpecPart)                          *)
(***************************************************************************)
InRange(r, x) == r[1] <= x /\ x < r[2]

\* C7: when the spawn loop has ended, every renderable index in [0, N) lies
\* in exactly one of the ranges handed to workers, and every handed range is a
\* non-empty part of [0, N).
C7_RangesPartition ==
    part.done =>
      /\ \A x \in 0 .. (part.N - 1) :
           Cardinality({j \in 1 .. Len(part.handed) : InRange(part.handed[j], x)}) = 1
      /\ \A j \in 1 .. Len(part.handed) :
           /\ 0 <= part.handed[j][1]
           /\ part.handed[j][1] < part.handed[j][2]
           /\ part.handed[j][2] <= part.N

\* N = M + 1: the last worker gets no range
C7_Witness ==
    /\ part.done
    /\ part.N = part.M + 1
    /\ Len(part.handed) = part.M - 1

\* ceil(n / m): the least c with c * m >= n
CeilDiv(n, m) == CHOOSE c \in 0 .. n : c * m >= n /\ \A d \in 0 .. (c - 1) : d * m < n

\* the range the design gives worker k
DesignRange(n, m, k) ==
    <<Min(n, k * CeilDiv(n, m)), Min(n, (k + 1) * CeilDiv(n, m))>>

\* C8: M is max(2, hardwareConcurrency); every range the loop computes for a
\* worker t is [min(N, t*chunk), min(N, (t+1)*chunk)) with chunk = ceil(N/M),
\* the workers the loop does not reach have an empty such range, and N = 5,
\* M = 4 gives [0,2), [2,4), [4,5) and an empty range.
C8_RangeFormula ==
    /\ part.M = (IF part.hc > 2 THEN part.hc ELSE 2)
    /\ \A j \in 1 .. Len(part.computed) :
         part.computed[j] = DesignRange(part.N, part.M, j - 1)
    /\ \A t \in 0 .. (part.M - 1) :
         <<RangeBegin(part.N, part.M, t), RangeEnd(part.N, part.M, t)>>
           = DesignRange(part.N, part.M, t)
    /\ part.done =>
         \A k \in Len(part.computed) .. (part.M - 1) :
           DesignRange(part.N, part.M, k)[1] >= DesignRange(part.N, part.M, k)[2]
    /\ (part.done /\ part.N = 5 /\ part.M = 4) =>
         /\ part.computed = <<<<0, 2>>, <<2, 4>>, <<4, 5>>, <<5, 5>>>>
         /\ part.handed = <<<<0, 2>>, <<2, 4>>, <<4, 5>>>>

\* the scenario of 5 renderables and 4 workers has been computed
C8_Witness ==
    /\ part.done
    /\ part.N = 5
    /\ part.M = 4
    /\ Len(part.computed) = 4

(***************************************************************************)
(* Properties of the recording fan-out (SpecFan)                           *)
(***************************************************************************)
IsExecute(c) == c[1] = "vkCmdExecuteCommands"

\* the execute-secondary calls recorded into the primary buffer
ExecuteCalls == SelectSeq(cmds, IsExecute)

\* the elements of a set of numbers in increasing order
Ascending(S) ==
    CHOOSE q \in [1 .. Cardinality(S) -> S] :
        \A a, b \in 1 .. Cardinality(S) : a < b => q[a] < q[b]

\* the workers whose design range is not empty
UsedWorkers ==
    {k \in 0 .. (M - 1) :
        DesignRange(Len(scene), M, k)[1] < DesignRange(Len(scene), M, k)[2]}

ExpectedExecList ==
    [j \in 1 .. Cardinality(UsedWorkers) |-> SecCb(Ascending(UsedWorkers)[j], frameIndex)]

InSeq(q, x) == \E j \in 1 .. Len(q) : q[j] = x

\* C9: every spawned worker has finished (was joined) before the execute
\* call is recorded; at most one execute call is recorded, none for N = 0; its
\* list is the secondary buffers of the workers with a non-empty range, in
\* increasing worker order, each ended by its worker; the other secondary
\* buffers are untouched.
C9_JoinBeforeExecute ==
    /\ pc \in {"fan_exec", "fan_done"} =>
         /\ joined = Len(threads)
         /\ \A k \in 1 .. Len(threads) : threads[k].st = "finished"
    /\ pc # "fan_done" => ExecuteCalls = <<>>
    /\ pc = "fan_done" =>
         /\ Len(ExecuteCalls) = (IF Len(scene) = 0 THEN 0 ELSE 1)
         /\ Len(ExecuteCalls) = 1 => ExecuteCalls[1][2] = ExpectedExecList
         /\ \A h \in SecHandles(M) :
              sec[h].state = (IF InSeq(ExpectedExecList, h) THEN "executable"
                              ELSE "initial")

\* a frame in which two workers recorded and one had an empty range
C9_Witness ==
    /\ pc = "fan_done"
    /\ Len(ExecuteCalls) = 1
    /\ Len(ExecuteCalls[1][2]) = 2
    /\ M = 3

IsBindOrDraw(c) == c[1] \in {"bind", "draw"}

RECURSIVE ConcatBuffers(_)
ConcatBuffers(list) ==
    IF list = <<>> THEN <<>> ELSE sec[Head(list)].cmds \o ConcatBuffers(Tail(list))

\* what the primary buffer executes through its secondary buffers
ExecutedCommands ==
    IF ExecuteCalls = <<>> THEN <<>> ELSE ConcatBuffers(ExecuteCalls[1][2])

RECURSIVE BindDrawOfModels(_, _)
BindDrawOfModels(objs, i) ==
    IF i > Len(objs) THEN <<>>
    ELSE (IF objs[i].model THEN <<<<"bind", objs[i].id>>, <<"draw", objs[i].id>>>>
          ELSE <<>>) \o BindDrawOfModels(objs, i + 1)

\* C10: whatever the interleaving, the bind+draw calls of the executed
\* secondary buffers, in execution order, are those BasicRenderer::render
\* records: one bind and draw per object with a model, in iteration order.
C10_FanOutEqualsRender ==
    pc = "fan_done" =>
      /\ SelectSeq(ExecutedCommands, IsBindOrDraw)
           = SelectSeq(Render(scene, frameIndex), IsBindOrDraw)
      /\ SelectSeq(ExecutedCommands, IsBindOrDraw) = BindDrawOfModels(scene, 1)

\* two workers recorded a scene that mixes objects with and without a model
C10_Witness ==
    /\ pc = "fan_done"
    /\ Len(threads) >= 2
    /\ \E a, b \in 1 .. Len(scene) : scene[a].model /\ ~scene[b].model /\ a < b
    /\ \E a, b \in 1 .. Len(scene) : ~scene[a].model /\ scene[b].model /\ a < b

(***************************************************************************)
(* Properties of the frame loop, continued (Spec)                          *)
(***************************************************************************)
\* C11: the framebuffer placed in the inheritance info of the secondary
\* buffers is the framebuffer with which the active render pass was begun.
C11_InheritedFramebufferIsActive ==
    \A i \in 1 .. Len(cmds) :
        cmds[i][1] = "vkCmdExecuteCommands" =>
          \E j \in 1 .. (i - 1) :
              /\ cmds[j][1] = "vkCmdBeginRenderPass"
              /\ cmds[j][2] = cmds[i][3]

\* recreateSwapChain has built the new SwapChain and leaves its body
RecreateLeaves == pc = "rc_loop" /\ pc' # "rc_loop"

\* C12: a recreateSwapChain that returns normally leaves the image format and
\* the depth format as they were; when the new generation differs in either,
\* the call throws instead of returning; no other step changes the formats, so
\* this holds along any number of recreations.
C12_FormatsPreserved ==
    [][/\ RecreateLeaves =>
            IF scFormats' = scFormats
            THEN pc' \in {"bf_ret", "ef_tail"}
            ELSE pc' = "thrown"
       /\ pc' # "thrown" => scFormats' = scFormats]_vars

\* a recreation inside endFrame kept both formats and is returning
C12_Witness ==
    /\ pc = "ef_tail"
    /\ lastCall.recreated
    /\ scFormats = <<"fmtB", "fmtA">>

\* C13: a SwapChain is constructed only with a non-degenerate extent, and
\* never while the extent of the window is degenerate: until the window has a
\* positive extent recreateSwapChain stays in its wait loop.
C13_NoDegenerateGeneration ==
    [][RecreateLeaves =>
          /\ ~IsDegenerate(extent)
          /\ ~IsDegenerate(GetExtent(window))]_vars

(***************************************************************************)
(* The frame loop with the window system as an event queue: the window     *)
(* system posts resize events, which reach the callback only inside        *)
(* glfwPollEvents / glfwWaitEvents, and glfwWaitEvents blocks while the    *)
(* queue is empty.  winsys.due records that a resize event was delivered,  *)
(* or acquire returned suboptimal, since the last recreateSwapChain began. *)
(***************************************************************************)
\* resize events the window system posts in one run
MaxPosted == 2

\* the window system queues a resize event
WinPost ==
    /\ ~Terminated
    /\ winsys.posted < MaxPosted
    /\ \E e \in ResizeEvents :
         winsys' = [winsys EXCEPT !.queue = Append(@, e), !.posted = @ + 1]
    /\ UNCHANGED <<loopVars, fanVars, part, commandBuffers, uboWritten>>

\* glfwPollEvents: runs the callback for every queued event and returns
WinPollEvents ==
    /\ pc = "poll"
    /\ window' = DeliverEvents(window, winsys.queue)
    /\ winsys' = [winsys EXCEPT !.queue = <<>>, !.due = @ \/ winsys.queue # <<>>]
    /\ pc' = "beginFrame"
    /\ UNCHANGED <<commandBuffer, frameIndex, lastCall, rendVars, scVars, gpuWork>>
    /\ UNCHANGED <<fanVars, part, commandBuffers, uboWritten>>

\* recreateSwapChain: one turn of the wait loop; glfwWaitEvents returns once
\* an event has been queued
WinRecreateWait ==
    /\ pc = "rc_loop"
    /\ IsDegenerate(extent)
    /\ winsys.queue # <<>>
    /\ extent' = GetExtent(window)
    /\ window' = DeliverEvents(window, winsys.queue)
    /\ winsys' = [winsys EXCEPT !.queue = <<>>, !.due = TRUE]
    /\ UNCHANGED <<prodVars, isFrameStarted, currentFrameIndex, currentImageIndex,
                   cmds, result, rcCaller, retTo, scVars, gpuWork>>
    /\ UNCHANGED <<fanVars, part, commandBuffers, uboWritten>>

WinBeginFrame ==
    /\ pc = "beginFrame"
    /\ BeginFrame("update", "loop")
    /\ winsys' = [winsys EXCEPT !.due = IF pc' = "rc_loop" THEN FALSE
                                        ELSE @ \/ result' = "VK_SUBOPTIMAL_KHR"]
    /\ UNCHANGED <<fanVars, part, commandBuffers, uboWritten>>

WinEndFrame ==
    /\ pc = "endFrame"
    /\ EndFrame("loop")
    /\ winsys' = [winsys EXCEPT !.due = IF pc' = "rc_loop" THEN FALSE ELSE @]
    /\ UNCHANGED <<fanVars, part, commandBuffers, uboWritten>>

InitWin == Init

\* the steps of the thread that runs the frame loop
WinProgram ==
    \/ LoopTest
    \/ WinPollEvents
    \/ WinBeginFrame
    \/ RunUpdate
    \/ RunBeginRenderPass
    \/ RunRecord
    \/ RunEndRenderPass
    \/ WinEndFrame
    \/ WinRecreateWait
    \/ RecreateBuild
    \/ BeginFrameReturnNull
    \/ EndFrameTail
    \/ Shutdown
    \/ RendererDestroy

NextWin ==
    \/ WinPost
    \/ GpuRetire
    \/ WinProgram

\* the thread runs whenever it is not blocked, and the GPU retires its work
SpecWin ==
    /\ InitWin
    /\ [][NextWin]_vars
    /\ WF_vars(WinProgram)
    /\ WF_vars(GpuRetire)

(***************************************************************************)
(* Properties of the frame loop with a window event queue (SpecWin)        *)
(***************************************************************************)
\* the window has a positive extent again and the window system is silent
RestoreDelivered ==
    /\ pc = "rc_loop"
    /\ ~IsDegenerate(GetExtent(window))
    /\ winsys.queue = <<>>
    /\ winsys.posted = MaxPosted

\* C14: a minimized window keeps recreateSwapChain in its wait loop without
\* an error, and once the resize event that makes the extent positive has
\* been delivered, with no further window event, recreateSwapChain eventually
\* leaves the loop and returns.
C14_MinimizedResumes ==
    /\ [][(pc = "rc_loop" /\ IsDegenerate(extent)) => pc' = "rc_loop"]_vars
    /\ RestoreDelivered ~> (pc # "rc_loop")

\* a recreateSwapChain call begins
RecreateBegins == pc # "rc_loop" /\ pc' = "rc_loop"

\* C15: every recreateSwapChain is caused by resize events delivered, or a
\* stale/suboptimal status returned, since the previous recreation began:
\* the events observed up to a recreation cause no second one.
C15_ResizeCoalesced ==
    [][RecreateBegins =>
          \/ winsys.due
          \/ result' \in {"VK_ERROR_OUT_OF_DATE_KHR", "VK_SUBOPTIMAL_KHR"}]_vars

(***************************************************************************)
(* Properties of the surface statuses (Spec)                               *)
(***************************************************************************)
\* acquireNextImage has returned its status to beginFrame in this step
AcquireReturns == pc = "beginFrame" /\ pc' # "beginFrame"

\* submitCommandBuffers has returned its status to endFrame in this step
PresentReturns == pc = "endFrame" /\ Len(gpuWork') = Len(gpuWork) + 1

TransientStatus(res) == res \in {"VK_ERROR_OUT_OF_DATE_KHR", "VK_SUBOPTIMAL_KHR"}

\* C16 as stated: every stale or suboptimal status, from acquire or from
\* present, makes the Renderer call recreateSwapChain.
C16_TransientStatusRecreates ==
    [][((AcquireReturns \/ PresentReturns) /\ TransientStatus(result')) =>
          pc' = "rc_loop"]_vars

\* C16, amended: a stale acquire and a stale or suboptimal present call
\* recreateSwapChain; a suboptimal acquire is treated as success, the frame
\* is opened without a recreation; none of them is raised as an error (the
\* frame can still fail on vkBeginCommandBuffer).
C16_TransientStatusHandled ==
    [][/\ (AcquireReturns /\ result' = "VK_ERROR_OUT_OF_DATE_KHR") => pc' = "rc_loop"
       /\ (AcquireReturns /\ result' = "VK_SUBOPTIMAL_KHR") =>
            /\ isFrameStarted'
            /\ pc' \in {"update", "thrown"}
            /\ pc' = "update" => commandBuffer' = PrimaryCb(currentFrameIndex)
       /\ (PresentReturns /\ TransientStatus(result')) => pc' = "rc_loop"]_vars

\* a frame is open after acquire returned suboptimal, with no recreation
C16_Witness ==
    /\ pc = "update"
    /\ result = "VK_SUBOPTIMAL_KHR"
    /\ isFrameStarted
    /\ ~lastCall.recreated

\* C17: an acquire status other than success, suboptimal and stale makes
\* beginFrame throw with no frame opened: isFrameStarted stays false,
\* currentFrameIndex is unchanged, no command buffer is begun or returned and
\* nothing is submitted.
C17_AcquireFailureIsFatal ==
    [][(AcquireReturns /\ result' \notin {"VK_SUCCESS", "VK_SUBOPTIMAL_KHR",
                                          "VK_ERROR_OUT_OF_DATE_KHR"}) =>
          /\ pc' = "thrown"
          /\ ~isFrameStarted /\ ~isFrameStarted'
          /\ currentFrameIndex' = currentFrameIndex
          /\ commandBuffer' = NullCb
          /\ cmds' = cmds
          /\ gpuWork' = gpuWork]_vars

\* beginFrame has thrown on a lost device
C17_Witness ==
    /\ pc = "thrown"
    /\ lastCall.op = "beginFrame"
    /\ result = "VK_ERROR_DEVICE_LOST"
    /\ ~isFrameStarted
    /\ currentFrameIndex = 1

(***************************************************************************)
(* Properties of the recording fan-out, continued (SpecFan)                *)
(***************************************************************************)
\* thread k is running and records into buffer h
Owns(k, h) == threads[k].cbSec = h /\ threads[k].st # "finished"

\* the producer begins buffer h, which no thread has been given, and only
\* then spawns its worker
ProducerBegins(h) ==
    /\ pc = "fan_spawn"
    /\ \A k \in 1 .. Len(threads) : threads[k].cbSec # h
    /\ Len(threads') = Len(threads) + 1
    /\ threads'[Len(threads')].cbSec = h
    /\ threads'[Len(threads')].st = "spawned"

\* exactly thread k takes a step, and it owns h
WorkerAccesses(k, h) ==
    /\ Owns(k, h)
    /\ threads'[k] # threads[k]
    /\ \A j \in 1 .. Len(threads) : j # k => threads'[j] = threads[j]

\* C18: worker t of a frame in slot k records into workers[t].sec[k] and no
\* other thread has that buffer; a secondary buffer changes only in a step of
\* the one running worker that owns it, or when the producer begins it before
\* spawning its worker; the producer executes the buffers only after every
\* worker has been joined.
C18_SecondaryBuffersExclusive ==
    /\ [](/\ \A k \in 1 .. Len(threads) : threads[k].cbSec = <<"secondary", k - 1, frameIndex>>
          /\ \A k, j \in 1 .. Len(threads) :
               k # j => threads[k].cbSec # threads[j].cbSec
          /\ pc \in {"fan_exec", "fan_done"} =>
               /\ joined = Len(threads)
               /\ \A k \in 1 .. Len(threads) : threads[k].st = "finished")
    /\ [][\A h \in DOMAIN sec :
            sec'[h] # sec[h] =>
              \/ ProducerBegins(h)
              \/ \E k \in 1 .. Len(threads) : WorkerAccesses(k, h)]_vars

\* two workers are recording at the same time, each into its own buffer
C18_Witness ==
    \E k, j \in 1 .. Len(threads) :
        /\ k # j
        /\ threads[k].st = "recording"
        /\ threads[j].st = "recording"
        /\ Len(sec[threads[k].cbSec].cmds) > 2
        /\ Len(sec[threads[j].cbSec].cmds) > 2

\* the first worker has been spawned and the last one is not joined yet
FanOutRunning == threads # <<>> /\ joined < Len(threads)

IsPushConstants(c) == c[1] = "vkCmdPushConstants"

\* C19: between the spawn of the first worker and the join of the last one
\* no step writes the scene, neither a worker nor the producer (the light
\* update and the UI edits come before), so every transform a worker has
\* recorded is the one the scene still holds.
C19_SceneFrozenWhileRecording ==
    /\ [][FanOutRunning => scene' = scene]_vars
    /\ [](\A h \in DOMAIN sec : \A i \in 1 .. Len(sec[h].cmds) :
            IsPushConstants(sec[h].cmds[i]) =>
              sec[h].cmds[i][3] = scene[sec[h].cmds[i][2]].transform)

\* workers are recording a scene whose lights were rotated and in which the
\* UI edited an object with a model
C19_Witness ==
    /\ pc = "fan_join"
    /\ FanOutRunning
    /\ \E k \in 1 .. Len(threads) :
         threads[k].st = "recording" /\ Len(sec[threads[k].cbSec].cmds) > 2
    /\ \E a, b \in 1 .. Len(scene) :
         /\ scene[a].model /\ scene[a].transform = "edited"
         /\ scene[b].transform = "rotated"

(***************************************************************************)
(* The frame-scoped accessors of the Renderer under an arbitrary caller    *)
(***************************************************************************)
\* an accessor call that returned value
AccessorCall(op, value) ==
    [op |-> op, arg |-> NullCb, recreated |-> FALSE, value |-> value]

\* assert(isFrameStarted && ...) of getCurrentCommandBuffer and getFrameIndex
AccessorAssert == isFrameStarted

\* an accessor with an assertion: abort, or return value
AssertingAccessor(op, value) ==
    IF ~AccessorAssert
    THEN /\ lastCall' = Call(op, NullCb)
         /\ AssertFail
    ELSE /\ lastCall' = AccessorCall(op, value)
         /\ UNCHANGED <<pc, commandBuffer, frameIndex, rendVars, scVars, window,
                        gpuWork>>

ApiGetCurrentCommandBuffer ==
    /\ pc = "api"
    /\ AssertingAccessor("getCurrentCommandBuffer", PrimaryCb(currentFrameIndex))
    /\ UNCHANGED <<fanVars, part, winsys, commandBuffers, uboWritten>>

ApiGetFrameIndex ==
    /\ pc = "api"
    /\ AssertingAccessor("getFrameIndex", currentFrameIndex)
    /\ UNCHANGED <<fanVars, part, winsys, commandBuffers, uboWritten>>

\* getCurrentFrameBuffer has no assertion
ApiGetCurrentFrameBuffer ==
    /\ pc = "api"
    /\ lastCall' = AccessorCall("getCurrentFrameBuffer", GetCurrentFrameBuffer)
    /\ UNCHANGED <<pc, commandBuffer, frameIndex, rendVars, scVars, window, gpuWork>>
    /\ UNCHANGED <<fanVars, part, winsys, commandBuffers, uboWritten>>

InitAcc == InitApi

NextAcc ==
    \/ ApiBeginFrame
    \/ ApiEndFrame
    \/ ApiGetCurrentCommandBuffer
    \/ ApiGetFrameIndex
    \/ ApiGetCurrentFrameBuffer
    \/ ApiPollEvents
    \/ RecreateWait
    \/ RecreateBuild
    \/ BeginFrameReturnNull
    \/ EndFrameTail
    \/ GpuRetire

SpecAcc == InitAcc /\ [][NextAcc]_vars

\* C20: each of getCurrentCommandBuffer, getFrameIndex and
\* getCurrentFrameBuffer aborts on its assertion when no frame is started,
\* and otherwise returns the open frame's command buffer, frame index and
\* framebuffer.
C20_AccessorsNeedFrame ==
    [][/\ (ApiGetCurrentCommandBuffer \/ ApiGetFrameIndex \/ ApiGetCurrentFrameBuffer) =>
            IF isFrameStarted THEN pc' = "api" ELSE pc' = "aborted"
       /\ (ApiGetCurrentCommandBuffer /\ isFrameStarted) =>
            lastCall'.value = commandBuffer
       /\ (ApiGetFrameIndex /\ isFrameStarted) =>
            lastCall'.value = currentFrameIndex
       /\ (ApiGetCurrentFrameBuffer /\ isFrameStarted) =>
            lastCall'.value = GetFrameBuffer(currentImageIndex)]_vars

(***************************************************************************)
(* Properties of the swapchain generations (Spec)                          *)
(***************************************************************************)
\* C21: when recreateSwapChain replaces the SwapChain, the queue holds no
\* unretired frame, before the new SwapChain is built and after the old one
\* is released; so no unretired frame ever belongs to a released generation.
C21_RecreateAfterIdle ==
    /\ [](\A i \in 1 .. Len(gpuWork) : ~gpuWork[i].old)
    /\ [][RecreateLeaves => (gpuWork = <<>> /\ gpuWork' = <<>>)]_vars

\* the recreation inside the second endFrame has replaced the SwapChain,
\* after the frames of both slots had been submitted
C21_Witness ==
    /\ pc = "ef_tail"
    /\ lastCall.recreated
    /\ currentFrameIndex = 1
    /\ gpuWork = <<>>

\* C22: in every frame, from the acquire in beginFrame to the submit in
\* endFrame, also after any number of recreations, the frame slot the
\* SwapChain uses for its fence and semaphores (SwapChain::currentFrame)
\* equals the Renderer's currentFrameIndex.
C22_FrameSlotsAgree ==
    pc \in {"beginFrame", "update", "beginRP", "record", "endRP", "endFrame"} =>
        scCurrentFrame = currentFrameIndex

(***************************************************************************)
(* Properties of the light pass (SpecFan)                                  *)
(***************************************************************************)
\* the step in which PointLightSystem::render sorts the lights
SortStep == lightPass.st = "pending" /\ lightPass'.st = "sorted"

\* C23 as stated: the light billboards are sorted before any worker thread
\* of the frame is spawned, so whenever a worker exists the sort has been
\* done.
C23_SortBeforeWorkers == threads # <<>> => lightPass.st # "pending"

\* C23, amended: the sort is performed by the producer thread alone, after
\* the fan-out: in the step that sorts, every spawned worker has finished and
\* has been joined and the execute call is recorded, and the step changes
\* nothing but the light pass; no step taken while a worker runs touches the
\* light pass.
C23_SortAfterJoin ==
    [][/\ SortStep =>
            /\ pc = "fan_done"
            /\ joined = Len(threads)
            /\ \A k \in 1 .. Len(threads) : threads[k].st = "finished"
            /\ Len(scene) > 0 => ExecuteCalls # <<>>
            /\ UNCHANGED <<threads, sec, scene, cmds>>
       /\ FanOutRunning => lightPass' = lightPass]_vars

\* two lights have been sorted in a frame that two workers recorded
C23_Witness ==
    /\ lightPass.st = "sorted"
    /\ Len(threads) >= 2
    /\ Cardinality(LightIds(scene)) >= 2
    /\ Cardinality(DOMAIN lightPass.sorted) = 2

(***************************************************************************)
(* Properties of the primary command buffers (Spec)                        *)
(***************************************************************************)
\* a step of recreateSwapChain, from its call to the construction
RecreateStep == pc = "rc_loop" \/ pc' = "rc_loop"

\* C24: the primary command buffers are the MAX_FRAMES_IN_FLIGHT handles
\* allocated in the constructor until the destructor frees them: no step of
\* the frame loop changes them, in particular none of recreateSwapChain, of a
\* stale acquire or of endFrame; and recreateSwapChain leaves
\* currentFrameIndex and isFrameStarted as they were.
C24_CommandBuffersStable ==
    /\ [](IF pc = "done"
          THEN commandBuffers \in {[k \in 0 .. (MAX_FRAMES_IN_FLIGHT - 1) |-> <<"primary", k>>],
                                   <<>>}
          ELSE /\ commandBuffers = [k \in 0 .. (MAX_FRAMES_IN_FLIGHT - 1) |-> <<"primary", k>>]
               /\ Cardinality(DOMAIN commandBuffers) = MAX_FRAMES_IN_FLIGHT)
    /\ [][/\ commandBuffers' # commandBuffers => (pc = "done" /\ commandBuffers' = <<>>)
          /\ (RecreateStep \/ InStaleBeginFrame \/ pc \in {"endFrame", "ef_tail"}) =>
                commandBuffers' = commandBuffers
          /\ pc = "rc_loop" =>
                /\ currentFrameIndex' = currentFrameIndex
                /\ isFrameStarted' = isFrameStarted]_vars

\* the frame of slot 1 is recorded into the buffer allocated by the
\* constructor, after a recreation inside the previous endFrame
C24_Witness ==
    /\ pc = "update"
    /\ currentFrameIndex = 1
    /\ scCurrentFrame = 0
    /\ commandBuffer = <<"primary", 1>>
    /\ commandBuffers[1] = <<"primary", 1>>

(***************************************************************************)
(* Properties of the open frame (Spec)                                     *)
(***************************************************************************)
\* beginFrame has returned a command buffer and endFrame is not yet called
FrameBodyRunning == pc \in {"update", "beginRP", "record", "endRP"}

\* C25: a resize event never interrupts an open frame: between a beginFrame
\* that returned a command buffer and the submit of that frame in endFrame
\* no step changes the window's extent or resized flag, replaces the
\* SwapChain or calls recreateSwapChain; recreateSwapChain begins only in a
\* beginFrame that opens no frame or in endFrame after the submit, and it
\* never returns into an open frame.
C25_ResizeNeverInterruptsFrame ==
    [][/\ FrameBodyRunning =>
            /\ window' = window
            /\ scVars' = scVars
            /\ pc' # "rc_loop"
            /\ isFrameStarted /\ isFrameStarted'
       /\ RecreateBegins =>
            \/ /\ pc = "beginFrame"
               /\ ~isFrameStarted'
               /\ commandBuffer' = NullCb
            \/ /\ pc = "endFrame"
               /\ PresentReturns
       /\ RecreateLeaves => pc' \notin {"update", "beginRP", "record", "endRP", "endFrame"}]_vars

\* the frame body runs with a resize pending: the event was delivered by
\* glfwPollEvents before beginFrame and is handled only in endFrame
C25_Witness ==
    /\ pc = "record"
    /\ window.framebufferResized
    /\ isFrameStarted
    /\ ~lastCall.recreated

(***************************************************************************)
(* Properties of the per-slot uniform buffers (Spec)                       *)
(***************************************************************************)
\* the step of run() that writes the uniform buffer
UboWriteStep == pc = "update" /\ pc' = "beginRP"

\* C26: the only step that writes a uniform buffer writes
\* uboBuffers[frameIndex] of the open frame's slot, at a time when no
\* unretired frame was submitted from that slot, also after recreations; and
\* the frame that is submitted bound the descriptor set of the slot whose
\* buffer was written for it.
C26_UboWrittenAfterRetire ==
    [][/\ IF UboWriteStep
          THEN /\ uboWritten' = currentFrameIndex
               /\ uboWritten' = frameIndex'
               /\ \A i \in 1 .. Len(gpuWork) : gpuWork[i].slot # uboWritten'
          ELSE uboWritten' = uboWritten
       /\ PresentReturns =>
            /\ uboWritten = currentFrameIndex
            /\ \A i \in 1 .. Len(cmds) :
                 IsExecute(cmds[i]) => cmds[i][2] = uboWritten
            /\ gpuWork'[Len(gpuWork')].slot = uboWritten]_vars

\* after a recreation left SwapChain::currentFrame behind, the uniform
\* buffer of slot 0 has been written while the frame of slot 1 is in flight
C26_Witness ==
    /\ pc = "beginRP"
    /\ uboWritten = 0
    /\ scCurrentFrame = 1
    /\ Len(gpuWork) = 1
    /\ gpuWork[1].slot = 1

(***************************************************************************)
(* Properties of the render pass contents (SpecFan)                        *)
(***************************************************************************)
IsBeginRenderPass(c) == c[1] = "vkCmdBeginRenderPass"

IsEndRenderPass(c) == c[1] = "vkCmdEndRenderPass"

\* command j of the primary buffer is recorded inside the pass begun by command i
InPass(i, j) ==
    /\ i < j
    /\ \A k \in (i + 1) .. (j - 1) : ~IsEndRenderPass(cmds[k])
    /\ ~IsEndRenderPass(cmds[j])

\* a command recorded inline: a bind, push constants or a draw
IsInline(c) == ~IsExecute(c) /\ ~IsBeginRenderPass(c) /\ ~IsEndRenderPass(c)

\* C27: inside a render pass the primary buffer holds commands of the kind
\* the pass was begun with: execute-secondary calls only in a pass begun in
\* secondary-command-buffer contents mode, with no inline command beside
\* them, and none in a pass begun in inline mode.
C27_PassContentsUniform ==
    \A i \in 1 .. Len(cmds) :
        IsBeginRenderPass(cmds[i]) =>
          \A j \in 1 .. Len(cmds) :
              (InPass(i, j) /\ IsExecute(cmds[j])) =>
                  /\ cmds[i][3] = "VK_SUBPASS_CONTENTS_SECONDARY_COMMAND_BUFFERS"
                  /\ \A k \in 1 .. Len(cmds) : InPass(i, k) => ~IsInline(cmds[k])

(***************************************************************************)
(* Properties of render pass bracketing (SpecApi)                          *)
(***************************************************************************)
\* a render pass is open on the frame's primary buffer
PassOpen ==
    \E i \in 1 .. Len(cmds) :
        /\ IsBeginRenderPass(cmds[i])
        /\ \A j \in (i + 1) .. Len(cmds) : ~IsEndRenderPass(cmds[j])

\* C28: within a frame, beginSwapChainRenderPass is rejected while a render
\* pass is open, endSwapChainRenderPass is rejected while none is open, and
\* endFrame is rejected while one is still open: the rejected call records
\* and submits nothing and does not return normally.
C28_PassBracketingEnforced ==
    [][/\ (ApiBeginRenderPass /\ isFrameStarted /\ PassOpen) =>
            (pc' # "api" /\ cmds' = cmds)
       /\ (ApiEndRenderPass /\ isFrameStarted /\ ~PassOpen) =>
            (pc' # "api" /\ cmds' = cmds)
       /\ (ApiEndFrame /\ isFrameStarted /\ PassOpen) =>
            (pc' \in {"aborted", "thrown"} /\ gpuWork' = gpuWork)]_vars

(***************************************************************************)
(* Properties of the light draws (SpecFan)                                 *)
(***************************************************************************)
IsLightDraw(c) == c[1] = "vkCmdDraw"

\* the draws PointLightSystem::render recorded into the primary buffer
LightDraws == SelectSeq(cmds, IsLightDraw)

\* C29: once PointLightSystem::render has recorded, the primary buffer holds
\* exactly one light draw for every object with a light component, in order
\* of non-increasing squared distance from the camera, for every placement
\* of the lights, lights at equal distance included.
C29_OneDrawPerLightFarToNear ==
    lightPass.st \in {"drawn", "ui"} =>
        /\ Len(LightDraws) = Cardinality(LightIds(scene))
        /\ \A id \in LightIds(scene) :
             Cardinality({j \in 1 .. Len(LightDraws) : LightDraws[j][2] = id}) = 1
        /\ \A a, b \in 1 .. Len(LightDraws) :
             a < b => lightPass.dist[LightDraws[a][2]] >= lightPass.dist[LightDraws[b][2]]

====
